---- MODULE Spec2Model ----
(***************************************************************************)
(* Model of i4CastleApp (Assignment2/i4CastleApp/i4CastleApp.cpp): the     *)
(* frame-resource ring with its CPU/GPU fence, the dirty-count propagation *)
(* of per-object and per-material constants, and the packing of the shape  *)
(* meshes into one vertex/index buffer pair.                               *)
(***************************************************************************)
EXTENDS Integers, Naturals, Sequences, FiniteSets, TLC

VARIABLES
    pc,                       \* position of the CPU thread: "init", "building", "initFlush", "frame", "waiting", "draw",
                              \* "returning", "unwinding", "caught", "exited"
    mCurrFrameResource,       \* i4CastleApp::mCurrFrameResource: the slot it points to, or Nullptr
    mCurrFrameResourceIndex,  \* i4CastleApp::mCurrFrameResourceIndex
    mCurrentFence,            \* D3DApp::mCurrentFence, the global fence counter
    completed,                \* mFence->GetCompletedValue()
    gpuQueue,                 \* mCommandQueue: work submitted and not yet processed by the GPU
    Fence,                    \* FrameResource::Fence of every slot
    waitValue,                \* fence value the completion event is registered for (0: none)
    ObjectCB,                 \* FrameResource::ObjectCB of every slot
    MaterialBuffer,           \* FrameResource::MaterialBuffer of every slot
    PassCB,                   \* FrameResource::PassCB of every slot
    CmdListAlloc,             \* FrameResource::CmdListAlloc: frame whose commands each allocator holds
    mAllRitems,               \* the render items (World, TexTransform, NumFramesDirty)
    mMaterials,               \* the registered materials (data, NumFramesDirty)
    numUpdates,               \* number of Update calls begun (stands for GameTimer::TotalTime)
    numEdits,                 \* number of edits made to items and materials
    initFence,                \* history: value of mCurrentFence when Initialize returned
    lastEdit,                 \* history: per render item, numUpdates at its last edit
    copiedAt,                 \* history: per render item, the update cycles that copied it since its last edit
    meshes,                   \* BuildShapeGeometry: the 14 generated meshes
    geo,                      \* BuildShapeGeometry: the packed MeshGeometry
    geoPc,                    \* BuildShapeGeometry: "start" or "built"
    mOpaqueRitems,            \* what DrawRenderItems reads of every render item (ObjCBIndex, Mat, Geo, draw arguments)
    mFrameResources,          \* the frame resources and the element counts they were created with
    md3dDevice,               \* D3DApp::md3dDevice is not nullptr
    exitCode,                 \* value returned by WinMain, or Nullptr while it has not returned
    diagnostic,               \* the "HR Failed" message box has been shown
    leaving,                  \* history: why WinMain is being left ("none", "initFalse", "throw", "quit")
    built                     \* history: the build steps Initialize has completed, in order

vars == <<pc, mCurrFrameResource, mCurrFrameResourceIndex, mCurrentFence, completed, gpuQueue, Fence,
          waitValue, ObjectCB, MaterialBuffer, PassCB, CmdListAlloc, mAllRitems,
          mMaterials, numUpdates, numEdits, initFence, lastEdit, copiedAt,
          meshes, geo, geoPc, mOpaqueRitems, mFrameResources, md3dDevice, exitCode,
          diagnostic, leaving, built>>

frameVars == <<pc, mCurrFrameResource, mCurrFrameResourceIndex, mCurrentFence, completed, gpuQueue, Fence,
               waitValue, ObjectCB, MaterialBuffer, PassCB, CmdListAlloc, mAllRitems,
               mMaterials, numUpdates, numEdits, initFence, lastEdit, copiedAt>>

geoVars == <<meshes, geo, geoPc>>

sceneVars == <<mOpaqueRitems, mFrameResources>>

lifeVars == <<md3dDevice, exitCode, diagnostic, leaving, built>>

----------------------------------------------------------------------------
(* Program constants *)

gNumFrameResources == 3

NumMaterials == 4

NumSrvDescriptors == 4

Nullptr == -1

NumMeshes == 14

IndexBits == 16

(* Bounds of the model *)

MaxFrames == 6

MaxInitFence == 1

NumRitems == 2

MaxEdits == 1

MaxMeshVerts == 3

Slots == 0 .. (gNumFrameResources - 1)

Ritems == 0 .. (NumRitems - 1)

Materials == 0 .. (NumMaterials - 1)

----------------------------------------------------------------------------
(* Matrices: 4x4, entries are fixed-point numbers in tenths *)

Identity4x4 ==
    << <<10, 0, 0, 0>>, <<0, 10, 0, 0>>, <<0, 0, 10, 0>>, <<0, 0, 0, 10>> >>

Zero4x4 ==
    << <<0, 0, 0, 0>>, <<0, 0, 0, 0>>, <<0, 0, 0, 0>>, <<0, 0, 0, 0>> >>

\* XMMatrixScaling(sx, sy, sz) * XMMatrixTranslation(tx, ty, tz)
ScalingTranslation(sx, sy, sz, tx, ty, tz) ==
    << <<sx, 0, 0, 0>>, <<0, sy, 0, 0>>, <<0, 0, sz, 0>>, <<tx, ty, tz, 10>> >>

XMMatrixTranspose(m) ==
    [r \in 1..4 |-> [c \in 1..4 |-> m[c][r]]]

----------------------------------------------------------------------------
(* Scene construction *)

\* BuildMaterials, lines 977-1015: the five materials it constructs, with
\* MatCBIndex, DiffuseSrvHeapIndex and Roughness (in tenths)
MaterialsConstructed ==
    << [Name |-> "bricks0", MatCBIndex |-> 0, DiffuseSrvHeapIndex |-> 0, Roughness |-> 1],
       [Name |-> "stone0", MatCBIndex |-> 1, DiffuseSrvHeapIndex |-> 1, Roughness |-> 3],
       [Name |-> "tile0", MatCBIndex |-> 2, DiffuseSrvHeapIndex |-> 2, Roughness |-> 3],
       [Name |-> "crate0", MatCBIndex |-> 3, DiffuseSrvHeapIndex |-> 3, Roughness |-> 2],
       [Name |-> "diaMat", MatCBIndex |-> 4, DiffuseSrvHeapIndex |-> 4, Roughness |-> 3] >>

MaterialsRegisteredWithDiaMat == <<"bricks0", "stone0", "tile0", "crate0", "diaMat">>

\* BuildMaterials, lines 1017-1021: the names stored into mMaterials
MaterialsRegistered == <<"bricks0", "stone0", "tile0", "crate0">>

\* BuildMaterials: the registered materials, in the order of registration
BuildMaterials ==
    [m \in 0 .. (Len(MaterialsRegistered) - 1) |->
        LET c == CHOOSE c \in 1..Len(MaterialsConstructed) :
                     MaterialsConstructed[c].Name = MaterialsRegistered[m + 1] IN
           [Name |-> MaterialsConstructed[c].Name,
            MatCBIndex |-> MaterialsConstructed[c].MatCBIndex,
            DiffuseSrvHeapIndex |-> MaterialsConstructed[c].DiffuseSrvHeapIndex,
            Roughness |-> MaterialsConstructed[c].Roughness,
            MatTransform |-> Identity4x4,
            NumFramesDirty |-> gNumFrameResources]]

\* BuildRenderItems: the first render items pushed to mAllRitems
RitemWorld(i) ==
    CASE i = 0 -> ScalingTranslation(43, 3, 43, 0, 3, -80)
      [] i = 1 -> ScalingTranslation(13, 10, 13, 0, 13, -80)
      [] i = 2 -> ScalingTranslation(10, 15, 10, -35, 5, -80)
      [] OTHER -> ScalingTranslation(10, 15, 10, 35, 5, -80)

RitemMat(i) ==
    CASE i = 0 -> 0
      [] i = 1 -> 0
      [] OTHER -> 1

BuildRenderItems ==
    [i \in Ritems |->
        [World |-> RitemWorld(i),
         TexTransform |-> Identity4x4,
         NumFramesDirty |-> gNumFrameResources,
         ObjCBIndex |-> i,
         Mat |-> RitemMat(i)]]

----------------------------------------------------------------------------
(* Constant data *)

ObjectConstantsUntransposed(e, mats) ==
    [World |-> e.World,
     TexTransform |-> e.TexTransform,
     MaterialIndex |-> mats[e.Mat].MatCBIndex]

\* ObjectConstants of a render item, as UpdateObjectCBs computes them
ObjectConstantsOf(e, mats) ==
    [World |-> XMMatrixTranspose(e.World),
     TexTransform |-> XMMatrixTranspose(e.TexTransform),
     MaterialIndex |-> mats[e.Mat].MatCBIndex]

\* MaterialData of a material, as UpdateMaterialBuffer computes them
MaterialDataOf(mat) ==
    [Roughness |-> mat.Roughness,
     MatTransform |-> XMMatrixTranspose(mat.MatTransform),
     DiffuseMapIndex |-> mat.DiffuseSrvHeapIndex]

\* Content of an upload buffer element that was never written: the memory is
\* not initialised by the program, so it is one of these
UninitObjectConstants ==
    { [World |-> Zero4x4, TexTransform |-> Zero4x4, MaterialIndex |-> 0],
      [World |-> Identity4x4, TexTransform |-> Identity4x4, MaterialIndex |-> 3] }

UninitMaterialData ==
    { [Roughness |-> 0, MatTransform |-> Zero4x4, DiffuseMapIndex |-> 0] }

UninitPassConstants ==
    { [TotalTime |-> 0] }

\* DirtyAfterCopy as a flag that is cleared by the first copy
DirtyClearedByCopy(n) == 0

\* DirtyAfterCopy without the decrement
DirtyNotDecremented(n) == n

\* A render item's dirty count after its constants were copied
DirtyAfterCopy(n) == n - 1

RECURSIVE UpdateObjectCBsFrom(_, _, _, _)
\* The loop of UpdateObjectCBs over mAllRitems from item i on: the object
\* buffer of the current frame resource after it
UpdateObjectCBsFrom(i, cb, items, mats) ==
    IF i >= NumRitems THEN cb
    ELSE LET e == items[i] IN
         IF e.NumFramesDirty > 0
         THEN UpdateObjectCBsFrom(i + 1,
                  [cb EXCEPT ![e.ObjCBIndex] = ObjectConstantsOf(e, mats)], items, mats)
         ELSE UpdateObjectCBsFrom(i + 1, cb, items, mats)

\* RitemsAfterUpdate rebuilding every copied item in the first slot
RitemsAfterUpdateReindexed(items) ==
    [i \in Ritems |->
        IF items[i].NumFramesDirty > 0
        THEN [items[i] EXCEPT !.NumFramesDirty = DirtyAfterCopy(@), !.ObjCBIndex = 0]
        ELSE items[i]]

\* The render items after UpdateObjectCBs
RitemsAfterUpdate(items) ==
    [i \in Ritems |->
        IF items[i].NumFramesDirty > 0
        THEN [items[i] EXCEPT !.NumFramesDirty = DirtyAfterCopy(@)]
        ELSE items[i]]

RECURSIVE UpdateMaterialBufferFrom(_, _, _)
\* The loop of UpdateMaterialBuffer over mMaterials from material m on
UpdateMaterialBufferFrom(m, buf, mats) ==
    IF m >= NumMaterials THEN buf
    ELSE IF mats[m].NumFramesDirty > 0
         THEN UpdateMaterialBufferFrom(m + 1,
                  [buf EXCEPT ![mats[m].MatCBIndex] = MaterialDataOf(mats[m])], mats)
         ELSE UpdateMaterialBufferFrom(m + 1, buf, mats)

\* MatDirtyAfterCopy as a flag that is cleared by the first copy
MatDirtyClearedByCopy(n) == 0

\* A material's dirty count after its data were copied
MatDirtyAfterCopy(n) == n - 1

\* MaterialsAfterUpdate counting down every material, copied or not
MaterialsAfterUpdateAll(mats) ==
    [m \in Materials |-> [mats[m] EXCEPT !.NumFramesDirty = MatDirtyAfterCopy(@)]]

\* The materials after UpdateMaterialBuffer
MaterialsAfterUpdate(mats) ==
    [m \in Materials |->
        IF mats[m].NumFramesDirty > 0
        THEN [mats[m] EXCEPT !.NumFramesDirty = MatDirtyAfterCopy(@)]
        ELSE mats[m]]

MainPassCBOfFirstFrame(t) == [TotalTime |-> 1]

\* The pass constants UpdateMainPassCB computes in update cycle t
MainPassCB(t) == [TotalTime |-> t]

----------------------------------------------------------------------------
(* The frame resource ring *)

\* NextFrameResourceIndex without the advance
PrevFrameResourceIndex(i) == (i + gNumFrameResources - 1) % gNumFrameResources

SameFrameResourceIndex(i) == i % gNumFrameResources

\* Update: the slot that follows slot i in the circular array
NextFrameResourceIndex(i) == (i + 1) % gNumFrameResources

\* MustWait with the comparison the wrong way round
MustWaitNever(fence, completedValue) == FALSE

MustWaitInverted(fence, completedValue) ==
    fence # 0 /\ completedValue > fence

\* Update: the test that decides whether the CPU waits for the GPU
MustWait(fence, completedValue) ==
    fence # 0 /\ completedValue < fence

\* WaitTarget waiting for the newest submitted fence value
WaitTargetNewest(fences, slot, newest) == newest

\* Update: the fence value the completion event is registered for
WaitTarget(fences, slot, newest) == fences[slot]

\* SelectFrameResource fetching the pointer before the index advances
SelectFrameResourceStale(oldIndex, newIndex) == oldIndex

\* Update: the frame resource mCurrFrameResource is set to, given the index
\* before and after the advance
SelectFrameResource(oldIndex, newIndex) == newIndex

\* AdvanceFence without the increment
AdvanceFenceNot(f) == f

\* Draw: the freshly incremented fence counter (++mCurrentFence)
AdvanceFence(f) == f + 1

\* SubmitFrame signalling the fence before the command list is queued
SubmitFrameNoSignal(queue, slot, value) == Append(queue, <<"exec", slot>>)

SubmitFrameSignalFirst(queue, slot, value) ==
    Append(Append(queue, <<"signal", value>>), <<"exec", slot>>)

\* Draw: the queue after ExecuteCommandLists of the frame recorded for slot
\* and, later, Signal(mFence, value)
SubmitFrame(queue, slot, value) ==
    Append(Append(queue, <<"exec", slot>>), <<"signal", value>>)

\* RecordFence storing the counter as it was before the increment
RecordFenceZero(fences, slot, value) == [fences EXCEPT ![slot] = 0]

RecordFenceAll(fences, slot, value) == [s \in DOMAIN fences |-> value]

RecordFenceStale(fences, slot, value) == [fences EXCEPT ![slot] = value - 1]

\* Draw: the fences of the slots after the frame was submitted
RecordFence(fences, slot, value) == [fences EXCEPT ![slot] = value]

\* The slots whose recorded command list the GPU has not finished executing
WaitReturnsOnTimeout(completedValue, target) == TRUE

\* WaitForSingleObject(eventHandle, INFINITE) returns only when the event
\* registered for the target value has been set
WaitReturns(completedValue, target) == completedValue >= target

GpuConsuming == { gpuQueue[j][2] : j \in { k \in 1..Len(gpuQueue) : gpuQueue[k][1] = "exec" } }

\* The fence values the queue was asked to signal and has not signalled yet
PendingSignals == { gpuQueue[j][2] : j \in { k \in 1..Len(gpuQueue) : gpuQueue[k][1] = "signal" } }

InFlight(s) == Fence[s] # 0 /\ completed < Fence[s]

Free(s) == Fence[s] = 0 \/ completed >= Fence[s]

----------------------------------------------------------------------------
(* Geometry packing: BuildShapeGeometry *)

\* The order in which BuildShapeGeometry places the meshes
MeshNames ==
    <<"box", "grid", "sphere", "cylinder", "diamond", "wedge", "octahedron",
      "triangularPrism", "hexagon", "octagon", "cone", "pyramid", "container", "star">>

\* A generated mesh k with n vertices: vertex i of mesh k is <<k, i>>; its
\* index list is 3*n long and names the vertices 0 .. n-1 starting at rot
MeshOfSize(k, n, rot) ==
    [Vertices |-> [i \in 1..n |-> <<k, i - 1>>],
     Indices32 |-> [j \in 1..(3 * n) |-> (j - 1 + rot) % n]]

\* The meshes the geometry generator may hand to BuildShapeGeometry: meshes a
\* and b have p and q vertices, every other mesh has r
MeshInputs ==
    { [k \in 1..NumMeshes |->
          MeshOfSize(k, IF k = a THEN p ELSE IF k = b THEN q ELSE r, rot)] :
        a \in 1..NumMeshes, b \in 1..NumMeshes,
        p \in 1..MaxMeshVerts, q \in 1..MaxMeshVerts, r \in 1..MaxMeshVerts,
        rot \in 0..1 }

SampleMeshes == [k \in 1..NumMeshes |-> MeshOfSize(k, 1 + (k % 2), 0)]

\* MeshData::GetIndices16: the 32-bit indices narrowed to 16 bits
GetIndices16(mesh) ==
    [j \in 1..Len(mesh.Indices32) |-> mesh.Indices32[j] % (2 ^ IndexBits)]

RECURSIVE VertexOffsetFromIndices(_, _)
\* VertexOffset summing the index counts instead of the vertex counts
VertexOffsetFromIndices(ms, k) ==
    IF k = 1 THEN 0 ELSE VertexOffsetFromIndices(ms, k - 1) + Len(ms[k - 1].Indices32)

RECURSIVE VertexOffset(_, _)
\* boxVertexOffset .. starVertexOffset: the vertex counts of the meshes before k
VertexOffset(ms, k) ==
    IF k = 1 THEN 0 ELSE VertexOffset(ms, k - 1) + Len(ms[k - 1].Vertices)

RECURSIVE IndexOffsetFromVertices(_, _)
\* IndexOffset summing the vertex counts instead of the index counts
IndexOffsetFromVertices(ms, k) ==
    IF k = 1 THEN 0 ELSE IndexOffsetFromVertices(ms, k - 1) + Len(ms[k - 1].Vertices)

RECURSIVE IndexOffset(_, _)
\* boxIndexOffset .. starIndexOffset: the index counts of the meshes before k
IndexOffset(ms, k) ==
    IF k = 1 THEN 0 ELSE IndexOffset(ms, k - 1) + Len(ms[k - 1].Indices32)

\* boxSubmesh .. starSubmesh
Submesh(ms, k) ==
    [IndexCount |-> Len(ms[k].Indices32),
     StartIndexLocation |-> IndexOffset(ms, k),
     BaseVertexLocation |-> VertexOffset(ms, k)]

RECURSIVE PackVertices(_, _)
\* The copy loops: the vertices of meshes 1 .. k, one mesh after the other
PackVertices(ms, k) ==
    IF k = 0 THEN <<>> ELSE PackVertices(ms, k - 1) \o ms[k].Vertices

RECURSIVE PackIndices(_, _)
\* indices.insert(indices.end(), ...): the 16-bit indices of meshes 1 .. k
PackIndices(ms, k) ==
    IF k = 0 THEN <<>> ELSE PackIndices(ms, k - 1) \o GetIndices16(ms[k])

\* The MeshGeometry "shapeGeo" built from the meshes
BuildShapeGeometry(ms) ==
    [vertices |-> PackVertices(ms, NumMeshes),
     indices |-> PackIndices(ms, NumMeshes),
     DrawArgs |-> [k \in 1..NumMeshes |-> Submesh(ms, k)]]

----------------------------------------------------------------------------
(* The render items and the frame resources: BuildRenderItems, *)
(* BuildFrameResources *)

\* Position in DrawArgs of the submesh registered under a name
MeshIndex(name) == CHOOSE k \in 1..NumMeshes : MeshNames[k] = name

DrawArgsRegisteredButStar == { MeshNames[k] : k \in 1..(NumMeshes - 1) }

\* The names under which BuildShapeGeometry stores the submeshes in DrawArgs
DrawArgsRegistered == { MeshNames[k] : k \in 1..NumMeshes }

\* The names under which BuildShapeGeometry stores geometries in mGeometries
GeometriesRegistered == {"shapeGeo"}

\* A default-constructed SubmeshGeometry
EmptySubmesh == [IndexCount |-> 0, StartIndexLocation |-> 0, BaseVertexLocation |-> 0]

\* geo->DrawArgs[name]: the submesh stored under the name; operator[]
\* of the map creates an empty one for a name that is not stored
LookupDrawArgs(g, name) ==
    IF name \in DrawArgsRegistered THEN g.DrawArgs[MeshIndex(name)] ELSE EmptySubmesh

\* mMaterials[name].get(): the material stored under the name, or nullptr
\* from the entry operator[] creates for a name that is not stored
LookupMaterial(mats, name) ==
    IF \E m \in DOMAIN mats : mats[m].Name = name
    THEN CHOOSE m \in DOMAIN mats : mats[m].Name = name
    ELSE Nullptr

\* mGeometries[name].get(), likewise
LookupGeometry(name) == IF name \in GeometriesRegistered THEN name ELSE "nullptr"

\* The render items pushed one by one with a literal ObjCBIndex, lines 1031-1218
FixedRitemsFront ==
    << <<0, "cylinder", "bricks0">>, <<1, "container", "bricks0">>,
       <<2, "pyramid", "stone0">>, <<3, "pyramid", "stone0">>,
       <<4, "cone", "stone0">>, <<5, "cylinder", "stone0">>,
       <<6, "hexagon", "stone0">>, <<7, "triangularPrism", "tile0">>,
       <<8, "triangularPrism", "tile0">>, <<9, "triangularPrism", "tile0">>,
       <<10, "diamond", "stone0">>, <<11, "box", "crate0">>,
       <<12, "grid", "stone0">>, <<13, "wedge", "stone0">>,
       <<14, "octahedron", "tile0">>, <<15, "octahedron", "tile0">> >>

\* The render items pushed one by one with a literal ObjCBIndex, lines 1345-1436
FixedRitemsBack ==
    << <<32, "wedge", "crate0">>, <<33, "wedge", "crate0">>,
       <<34, "wedge", "crate0">>, <<35, "cylinder", "crate0">>,
       <<36, "star", "crate0">>, <<37, "box", "crate0">>,
       <<38, "box", "crate0">>, <<39, "box", "crate0">> >>

ObjCBIndexInLoopStuck(start, k) == start

\* Value of objCBIndex++ at its k-th evaluation (k from 0) after objCBIndex = start
ObjCBIndexInLoop(start, k) == start + k

\* for (int i = 0; i < 2; ++i): every iteration builds one item per shape,
\* each taking objCBIndex++, and pushes them in that order
LoopRitems(start, shapes, mat) ==
    [n \in 1..(2 * Len(shapes)) |->
        <<ObjCBIndexInLoop(start, n - 1), shapes[((n - 1) % Len(shapes)) + 1], mat>>]

\* All pushes of BuildRenderItems, in order: <<ObjCBIndex, DrawArgs name, material name>>
RitemTable ==
    FixedRitemsFront
      \o LoopRitems(16, <<"octagon", "octagon", "sphere", "sphere">>, "stone0")
      \o LoopRitems(24, <<"hexagon", "hexagon", "cone", "cone">>, "crate0")
      \o FixedRitemsBack
      \o LoopRitems(40, <<"box">>, "crate0")
      \o LoopRitems(42, <<"box">>, "crate0")
      \o LoopRitems(44, <<"box">>, "crate0")
      \o LoopRitems(46, <<"box">>, "crate0")
      \o LoopRitems(48, <<"box">>, "crate0")

\* What BuildRenderItems stores in a render item besides its transforms,
\* given the packed geometry g and the registered materials mats;
\* mOpaqueRitems lists all of mAllRitems
BuildOpaqueRitems(g, mats) ==
    [n \in 1..Len(RitemTable) |->
        LET sub == LookupDrawArgs(g, RitemTable[n][2]) IN
           [ObjCBIndex |-> RitemTable[n][1],
            Mat |-> LookupMaterial(mats, RitemTable[n][3]),
            Geo |-> LookupGeometry("shapeGeo"),
            IndexCount |-> sub.IndexCount,
            StartIndexLocation |-> sub.StartIndexLocation,
            BaseVertexLocation |-> sub.BaseVertexLocation]]

\* BuildFrameResources: gNumFrameResources frame resources, each created
\* for 1 pass, mAllRitems.size() objects and mMaterials.size() materials
BuildFrameResources(items, mats) ==
    [s \in Slots |->
        [passCount |-> 1,
         objectCount |-> Len(items),
         materialCount |-> Cardinality(DOMAIN mats)]]

----------------------------------------------------------------------------
(* Operations *)

Init ==
    /\ pc = "init"
    /\ mCurrFrameResource = Nullptr
    /\ mCurrFrameResourceIndex = 0
    /\ mCurrentFence = 0
    /\ completed = 0
    /\ gpuQueue = <<>>
    /\ Fence = <<>>
    /\ waitValue = 0
    /\ ObjectCB = <<>>
    /\ MaterialBuffer = <<>>
    /\ PassCB = <<>>
    /\ CmdListAlloc = <<>>
    /\ mAllRitems = <<>>
    /\ mMaterials = <<>>
    /\ numUpdates = 0
    /\ numEdits = 0
    /\ initFence = 0
    /\ lastEdit = <<>>
    /\ copiedAt = <<>>
    /\ meshes = SampleMeshes
    /\ geo = <<>>
    /\ geoPc = "start"
    /\ mOpaqueRitems = <<>>
    /\ mFrameResources = <<>>
    /\ md3dDevice = FALSE
    /\ exitCode = Nullptr
    /\ diagnostic = FALSE
    /\ leaving = "none"
    /\ built = <<>>

InitializeStepsSizedFirst ==
    <<"LoadTextures", "BuildRootSignature", "BuildDescriptorHeaps",
      "BuildShadersAndInputLayout", "BuildShapeGeometry", "BuildMaterials",
      "BuildFrameResources", "BuildRenderItems", "BuildPSOs">>

\* The build steps of Initialize in the order of their calls, lines 175-183
InitializeSteps ==
    <<"LoadTextures", "BuildRootSignature", "BuildDescriptorHeaps",
      "BuildShadersAndInputLayout", "BuildShapeGeometry", "BuildMaterials",
      "BuildRenderItems", "BuildFrameResources", "BuildPSOs">>

\* Initialize between the Reset and the Close of the command list: the
\* build steps, which leave every upload buffer with unspecified contents
BuildAll ==
    /\ built' = InitializeSteps
    /\ geo' = BuildShapeGeometry(meshes)
    /\ geoPc' = "built"
    /\ mMaterials' = BuildMaterials
    /\ mAllRitems' = BuildRenderItems
    /\ mOpaqueRitems' = BuildOpaqueRitems(geo', mMaterials')
    /\ mFrameResources' = BuildFrameResources(mOpaqueRitems', mMaterials')
    /\ \E o \in UninitObjectConstants, m \in UninitMaterialData, p \in UninitPassConstants :
          /\ ObjectCB' = [s \in Slots |-> [i \in Ritems |-> o]]
          /\ MaterialBuffer' = [s \in Slots |-> [k \in Materials |-> m]]
          /\ PassCB' = [s \in Slots |-> p]
    /\ Fence' = [s \in Slots |-> 0]
    /\ CmdListAlloc' = [s \in Slots |-> 0]
    /\ lastEdit' = [i \in Ritems |-> 0]
    /\ copiedAt' = [i \in Ritems |-> {}]

\* i4CastleApp::Initialize: builds the scene and the frame resources, executes
\* the initialization commands and flushes the queue. The flushes of the base
\* class leave the fence counter at some value f0, with the GPU idle.
Initialize ==
    /\ pc = "init"
    /\ pc' = "frame"
    /\ md3dDevice' = TRUE
    /\ BuildAll
    /\ \E f0 \in 0..MaxInitFence :
          /\ mCurrentFence' = f0
          /\ completed' = f0
          /\ initFence' = f0
    /\ gpuQueue' = <<>>
    /\ UNCHANGED <<mCurrFrameResource, mCurrFrameResourceIndex, waitValue,
                   numUpdates, numEdits, meshes, exitCode, diagnostic, leaving>>

\* Update, lines 223-226: AnimateMaterials, UpdateObjectCBs,
\* UpdateMaterialBuffer and UpdateMainPassCB on frame resource cur in cycle t
WriteFrameConstants(cur, t) ==
    /\ ObjectCB' = [ObjectCB EXCEPT ![cur] = UpdateObjectCBsFrom(0, @, mAllRitems, mMaterials)]
    /\ mAllRitems' = RitemsAfterUpdate(mAllRitems)
    /\ copiedAt' = [i \in Ritems |->
                       IF mAllRitems[i].NumFramesDirty > 0
                       THEN copiedAt[i] \cup {t} ELSE copiedAt[i]]
    /\ MaterialBuffer' = [MaterialBuffer EXCEPT ![cur] = UpdateMaterialBufferFrom(0, @, mMaterials)]
    /\ mMaterials' = MaterialsAfterUpdate(mMaterials)
    /\ PassCB' = [PassCB EXCEPT ![cur] = MainPassCB(t)]

\* Update when the selected frame resource is free: the whole handler
UpdateNoWait ==
    /\ pc = "frame"
    /\ numUpdates < MaxFrames
    /\ LET idx == NextFrameResourceIndex(mCurrFrameResourceIndex)
           cur == SelectFrameResource(mCurrFrameResourceIndex, idx) IN
          /\ ~MustWait(Fence[cur], completed)
          /\ mCurrFrameResourceIndex' = idx
          /\ mCurrFrameResource' = cur
          /\ WriteFrameConstants(cur, numUpdates + 1)
    /\ numUpdates' = numUpdates + 1
    /\ pc' = "draw"
    /\ UNCHANGED <<sceneVars, lifeVars, mCurrentFence, completed, gpuQueue, Fence, waitValue, CmdListAlloc,
                   numEdits, initFence, lastEdit, meshes, geo, geoPc>>

\* Update up to WaitForSingleObject, when the selected frame resource is
\* still awaited
UpdateBlock ==
    /\ pc = "frame"
    /\ numUpdates < MaxFrames
    /\ LET idx == NextFrameResourceIndex(mCurrFrameResourceIndex)
           cur == SelectFrameResource(mCurrFrameResourceIndex, idx) IN
          /\ MustWait(Fence[cur], completed)
          /\ mCurrFrameResourceIndex' = idx
          /\ mCurrFrameResource' = cur
          /\ waitValue' = WaitTarget(Fence, cur, mCurrentFence)
    /\ numUpdates' = numUpdates + 1
    /\ pc' = "waiting"
    /\ UNCHANGED <<sceneVars, lifeVars, mCurrentFence, completed, gpuQueue, Fence, ObjectCB, MaterialBuffer,
                   PassCB, CmdListAlloc, mAllRitems, mMaterials, numEdits, initFence,
                   lastEdit, copiedAt, meshes, geo, geoPc>>

\* Update from the return of WaitForSingleObject on: the event is set once
\* the fence has reached the value it was registered for
UpdateResume ==
    /\ pc = "waiting"
    /\ WaitReturns(completed, waitValue)
    /\ WriteFrameConstants(mCurrFrameResource, numUpdates)
    /\ waitValue' = 0
    /\ pc' = "draw"
    /\ UNCHANGED <<sceneVars, lifeVars, mCurrFrameResource, mCurrFrameResourceIndex, mCurrentFence, completed,
                   gpuQueue, Fence, CmdListAlloc, numUpdates, numEdits, initFence,
                   lastEdit, meshes, geo, geoPc>>

\* Draw: resets the allocator of the current frame resource, records and
\* submits the frame, then advances the fence and asks the queue to signal it
Draw ==
    /\ pc = "draw"
    /\ LET cur == mCurrFrameResource IN
          /\ CmdListAlloc' = [CmdListAlloc EXCEPT ![cur] = numUpdates]
          /\ mCurrentFence' = AdvanceFence(mCurrentFence)
          /\ Fence' = RecordFence(Fence, cur, mCurrentFence')
          /\ gpuQueue' = SubmitFrame(gpuQueue, cur, mCurrentFence')
    /\ pc' = "frame"
    /\ UNCHANGED <<sceneVars, lifeVars, mCurrFrameResource, mCurrFrameResourceIndex, completed, waitValue,
                   ObjectCB, MaterialBuffer, PassCB, mAllRitems, mMaterials, numUpdates,
                   numEdits, initFence, lastEdit, copiedAt, meshes, geo, geoPc>>

\* An edit of render item i between two frames, following the protocol of
\* RenderItem::NumFramesDirty: the data changes and the count is set to
\* gNumFrameResources. Every edit stores a World not used before.
EditRenderItem(i) ==
    /\ pc = "frame"
    /\ numEdits < MaxEdits
    /\ numEdits' = numEdits + 1
    /\ mAllRitems' = [mAllRitems EXCEPT
                         ![i].World = ScalingTranslation(10, 10, 10, 10 * numEdits', 0, 0),
                         ![i].NumFramesDirty = gNumFrameResources]
    /\ lastEdit' = [lastEdit EXCEPT ![i] = numUpdates]
    /\ copiedAt' = [copiedAt EXCEPT ![i] = {}]
    /\ UNCHANGED <<sceneVars, lifeVars, pc, mCurrFrameResource, mCurrFrameResourceIndex, mCurrentFence,
                   completed, gpuQueue, Fence, waitValue, ObjectCB, MaterialBuffer, PassCB,
                   CmdListAlloc, mMaterials, numUpdates, initFence, meshes, geo, geoPc>>

\* The GPU finishes executing the command list at the head of the queue
GpuExecute ==
    /\ gpuQueue # <<>>
    /\ Head(gpuQueue)[1] = "exec"
    /\ gpuQueue' = Tail(gpuQueue)
    /\ UNCHANGED <<sceneVars, lifeVars, pc, mCurrFrameResource, mCurrFrameResourceIndex, mCurrentFence,
                   completed, Fence, waitValue, ObjectCB, MaterialBuffer, PassCB,
                   CmdListAlloc, mAllRitems, mMaterials, numUpdates, numEdits, initFence,
                   lastEdit, copiedAt, meshes, geo, geoPc>>

\* The GPU reaches a Signal in the queue and sets the fence to its value
GpuSignal ==
    /\ gpuQueue # <<>>
    /\ Head(gpuQueue)[1] = "signal"
    /\ completed' = Head(gpuQueue)[2]
    /\ gpuQueue' = Tail(gpuQueue)
    /\ UNCHANGED <<sceneVars, lifeVars, pc, mCurrFrameResource, mCurrFrameResourceIndex, mCurrentFence,
                   Fence, waitValue, ObjectCB, MaterialBuffer, PassCB,
                   CmdListAlloc, mAllRitems, mMaterials, numUpdates, numEdits, initFence,
                   lastEdit, copiedAt, meshes, geo, geoPc>>

Next ==
    \/ Initialize
    \/ UpdateNoWait
    \/ UpdateBlock
    \/ UpdateResume
    \/ Draw
    \/ \E i \in Ritems : EditRenderItem(i)
    \/ GpuExecute
    \/ GpuSignal

Spec == Init /\ [][Next]_vars

\* The geometry packing alone, over all bounded mesh inputs
InitGeo ==
    /\ pc = "init"
    /\ mCurrFrameResource = Nullptr
    /\ mCurrFrameResourceIndex = 0
    /\ mCurrentFence = 0
    /\ completed = 0
    /\ gpuQueue = <<>>
    /\ Fence = <<>>
    /\ waitValue = 0
    /\ ObjectCB = <<>>
    /\ MaterialBuffer = <<>>
    /\ PassCB = <<>>
    /\ CmdListAlloc = <<>>
    /\ mAllRitems = <<>>
    /\ mMaterials = <<>>
    /\ numUpdates = 0
    /\ numEdits = 0
    /\ initFence = 0
    /\ lastEdit = <<>>
    /\ copiedAt = <<>>
    /\ meshes \in MeshInputs
    /\ geo = <<>>
    /\ geoPc = "start"
    /\ mOpaqueRitems = <<>>
    /\ mFrameResources = <<>>
    /\ md3dDevice = FALSE
    /\ exitCode = Nullptr
    /\ diagnostic = FALSE
    /\ leaving = "none"
    /\ built = <<>>

NextGeo == Initialize

SpecGeo == InitGeo /\ [][NextGeo]_vars

----------------------------------------------------------------------------
(* The whole run of WinMain: Initialize with its flush, failed calls, *)
(* the end of the message loop and the destruction of the application  *)

\* Values Run can return when the message loop ends
QuitCodes == {0, 1}

FlushCommandQueueNoWait(queue) == TRUE

\* FlushCommandQueue returns once the GPU has processed all the work
\* submitted to the queue ("Wait until initialization is complete")
FlushCommandQueueReturns(queue) == queue = <<>>

ThrowIfFailedIgnored(failed, next) == next

\* Position of the thread after ThrowIfFailed(hr): a failed call throws a
\* DxException, which leaves every frame of the call stack up to WinMain
ThrowIfFailed(failed, next) == IF failed THEN "unwinding" ELSE next

\* D3DApp::Initialize returns false: Initialize returns false and WinMain
\* returns 0. The device may or may not have been created by then.
BaseInitializeFails ==
    /\ pc = "init"
    /\ md3dDevice' \in BOOLEAN
    /\ exitCode' = 0
    /\ leaving' = "initFalse"
    /\ pc' = "returning"
    /\ UNCHANGED <<mCurrFrameResource, mCurrFrameResourceIndex, mCurrentFence, completed,
                   gpuQueue, Fence, waitValue, ObjectCB, MaterialBuffer, PassCB,
                   CmdListAlloc, mAllRitems, mMaterials, numUpdates, numEdits, initFence,
                   lastEdit, copiedAt, geoVars, sceneVars, diagnostic, built>>

\* A call checked by ThrowIfFailed fails in Initialize: the Reset of the
\* command list (nothing built yet) or its Close (everything built)
InitializeFails ==
    /\ pc = "init"
    /\ md3dDevice' = TRUE
    /\ leaving' = "throw"
    /\ pc' = ThrowIfFailed(TRUE, "initFlush")
    /\ \/ UNCHANGED <<Fence, ObjectCB, MaterialBuffer, PassCB, CmdListAlloc, mAllRitems,
                      mMaterials, lastEdit, copiedAt, geo, geoPc, sceneVars, built>>
       \/ BuildAll
    /\ UNCHANGED <<mCurrFrameResource, mCurrFrameResourceIndex, mCurrentFence, completed,
                   gpuQueue, waitValue, numUpdates, numEdits, initFence, meshes,
                   exitCode, diagnostic>>

\* Initialize up to the wait inside its FlushCommandQueue: the initialization
\* commands are in the queue
InitializeSubmit ==
    /\ pc = "init"
    /\ md3dDevice' = TRUE
    /\ BuildAll
    /\ gpuQueue' = Append(gpuQueue, <<"exec", Nullptr>>)
    /\ pc' = "initFlush"
    /\ UNCHANGED <<mCurrFrameResource, mCurrFrameResourceIndex, mCurrentFence, completed,
                   waitValue, numUpdates, numEdits, initFence, meshes,
                   exitCode, diagnostic, leaving>>

\* Initialize from the return of its FlushCommandQueue on
InitializeReturn ==
    /\ pc = "initFlush"
    /\ FlushCommandQueueReturns(gpuQueue)
    /\ \E f0 \in 0..MaxInitFence :
          /\ mCurrentFence' = f0
          /\ completed' = f0
          /\ initFence' = f0
    /\ pc' = "frame"
    /\ UNCHANGED <<mCurrFrameResource, mCurrFrameResourceIndex, gpuQueue, Fence, waitValue,
                   ObjectCB, MaterialBuffer, PassCB, CmdListAlloc, mAllRitems, mMaterials,
                   numUpdates, numEdits, lastEdit, copiedAt, geoVars, sceneVars, lifeVars>>

\* Update when SetEventOnCompletion fails (line 218): the ring has advanced,
\* nothing has been written
UpdateFails ==
    /\ pc = "frame"
    /\ numUpdates < MaxFrames
    /\ LET idx == NextFrameResourceIndex(mCurrFrameResourceIndex)
           cur == SelectFrameResource(mCurrFrameResourceIndex, idx) IN
          /\ MustWait(Fence[cur], completed)
          /\ mCurrFrameResourceIndex' = idx
          /\ mCurrFrameResource' = cur
    /\ numUpdates' = numUpdates + 1
    /\ leaving' = "throw"
    /\ pc' = ThrowIfFailed(TRUE, "waiting")
    /\ UNCHANGED <<mCurrentFence, completed, gpuQueue, Fence, waitValue, ObjectCB,
                   MaterialBuffer, PassCB, CmdListAlloc, mAllRitems, mMaterials, numEdits,
                   initFence, lastEdit, copiedAt, geoVars, sceneVars, md3dDevice, exitCode,
                   diagnostic, built>>

\* Draw when a checked call fails: the Reset of the allocator (line 235), the
\* Reset or the Close of the command list (lines 239, 280), or Present
\* (line 287), which comes after ExecuteCommandLists
DrawFails ==
    /\ pc = "draw"
    /\ LET cur == mCurrFrameResource IN
          \/ UNCHANGED <<CmdListAlloc, gpuQueue>>
          \/ /\ CmdListAlloc' = [CmdListAlloc EXCEPT ![cur] = numUpdates]
             /\ UNCHANGED gpuQueue
          \/ /\ CmdListAlloc' = [CmdListAlloc EXCEPT ![cur] = numUpdates]
             /\ gpuQueue' = Append(gpuQueue, <<"exec", cur>>)
    /\ leaving' = "throw"
    /\ pc' = ThrowIfFailed(TRUE, "frame")
    /\ UNCHANGED <<mCurrFrameResource, mCurrFrameResourceIndex, mCurrentFence, completed,
                   Fence, waitValue, ObjectCB, MaterialBuffer, PassCB, mAllRitems,
                   mMaterials, numUpdates, numEdits, initFence, lastEdit, copiedAt,
                   geoVars, sceneVars, md3dDevice, exitCode, diagnostic, built>>

\* The message loop ends between two frames: Run returns and WinMain
\* returns its value
Quit ==
    /\ pc = "frame"
    /\ exitCode' \in QuitCodes
    /\ leaving' = "quit"
    /\ pc' = "returning"
    /\ UNCHANGED <<mCurrFrameResource, mCurrFrameResourceIndex, mCurrentFence, completed,
                   gpuQueue, Fence, waitValue, ObjectCB, MaterialBuffer, PassCB,
                   CmdListAlloc, mAllRitems, mMaterials, numUpdates, numEdits, initFence,
                   lastEdit, copiedAt, geoVars, sceneVars, md3dDevice, diagnostic, built>>

DestructorFlushesNever(device) == FALSE

\* The test of the destructor: the queue is flushed when a device exists
DestructorFlushes(device) == device

\* ~i4CastleApp, run when theApp goes out of scope by a return or by the
\* propagation of an exception: flushes the queue if the device exists
Destructor ==
    /\ pc \in {"returning", "unwinding"}
    /\ DestructorFlushes(md3dDevice) => FlushCommandQueueReturns(gpuQueue)
    /\ mFrameResources' = <<>>
    /\ pc' = IF pc = "unwinding" THEN "caught" ELSE "exited"
    /\ UNCHANGED <<mCurrFrameResource, mCurrFrameResourceIndex, mCurrentFence, completed,
                   gpuQueue, Fence, waitValue, ObjectCB, MaterialBuffer, PassCB,
                   CmdListAlloc, mAllRitems, mMaterials, numUpdates, numEdits, initFence,
                   lastEdit, copiedAt, geoVars, mOpaqueRitems, lifeVars>>

\* catch(DxException&) in WinMain: message box "HR Failed", return 0
CatchDxException ==
    /\ pc = "caught"
    /\ diagnostic' = TRUE
    /\ exitCode' = 0
    /\ pc' = "exited"
    /\ UNCHANGED <<mCurrFrameResource, mCurrFrameResourceIndex, mCurrentFence, completed,
                   gpuQueue, Fence, waitValue, ObjectCB, MaterialBuffer, PassCB,
                   CmdListAlloc, mAllRitems, mMaterials, numUpdates, numEdits, initFence,
                   lastEdit, copiedAt, geoVars, sceneVars, md3dDevice, leaving, built>>

\* The steps of the CPU thread in the whole run
CpuStep ==
    \/ BaseInitializeFails
    \/ InitializeFails
    \/ InitializeSubmit
    \/ InitializeReturn
    \/ UpdateNoWait
    \/ UpdateBlock
    \/ UpdateFails
    \/ UpdateResume
    \/ Draw
    \/ DrawFails
    \/ Quit
    \/ Destructor
    \/ CatchDxException

NextLife ==
    \/ BaseInitializeFails
    \/ InitializeFails
    \/ InitializeSubmit
    \/ InitializeReturn
    \/ UpdateNoWait
    \/ UpdateBlock
    \/ UpdateFails
    \/ UpdateResume
    \/ Draw
    \/ DrawFails
    \/ Quit
    \/ Destructor
    \/ CatchDxException
    \/ GpuExecute
    \/ GpuSignal

SpecLife == Init /\ [][NextLife]_vars

----------------------------------------------------------------------------
(* The run when the wait of Update itself can fail *)

AfterWaitChecked(result) == IF result = "WAIT_OBJECT_0" THEN "draw" ELSE "unwinding"

\* Where Update ends after WaitForSingleObject has returned with a result:
\* the result is not looked at (line 219), Update goes on to its writes
AfterWait(result) == "draw"

\* Update from a return of WaitForSingleObject with WAIT_FAILED on (an event
\* handle that CreateEventEx did not deliver, line 217, or any other failure
\* of the wait): the fence need not have reached the awaited value
UpdateWaitFails ==
    /\ pc = "waiting"
    /\ pc' = AfterWait("WAIT_FAILED")
    /\ IF pc' = "draw"
       THEN /\ WriteFrameConstants(mCurrFrameResource, numUpdates)
            /\ UNCHANGED leaving
       ELSE /\ leaving' = "throw"
            /\ UNCHANGED <<ObjectCB, MaterialBuffer, PassCB, mAllRitems, mMaterials, copiedAt>>
    /\ waitValue' = 0
    /\ UNCHANGED <<mCurrFrameResource, mCurrFrameResourceIndex, mCurrentFence, completed,
                   gpuQueue, Fence, CmdListAlloc, numUpdates, numEdits, initFence,
                   lastEdit, geoVars, sceneVars, md3dDevice, exitCode, diagnostic, built>>

NextWaitFault ==
    \/ NextLife
    \/ UpdateWaitFails

SpecWaitFault == Init /\ [][NextWaitFault]_vars

----------------------------------------------------------------------------
(* The frame loop with a GPU that makes progress *)

\* The frame loop of Run and the GPU, without edits
NextRing ==
    \/ Initialize
    \/ UpdateNoWait
    \/ UpdateBlock
    \/ UpdateResume
    \/ Draw
    \/ GpuExecute
    \/ GpuSignal

\* The GPU executes every command list and raises every signalled fence
\* value in the end; the thread runs whenever it is not suspended
SpecFair ==
    /\ Init
    /\ [][NextRing]_vars
    /\ WF_vars(GpuExecute)
    /\ WF_vars(GpuSignal)
    /\ WF_vars(Initialize)
    /\ WF_vars(UpdateNoWait)
    /\ WF_vars(UpdateBlock)
    /\ WF_vars(UpdateResume)
    /\ WF_vars(Draw)

----------------------------------------------------------------------------
(* Initialize step by step, followed by the frame loop *)

\* Initialize up to the Reset of the command list: the base class has
\* created the device
InitializeBegin ==
    /\ pc = "init"
    /\ md3dDevice' = TRUE
    /\ pc' = "building"
    /\ UNCHANGED <<mCurrFrameResource, mCurrFrameResourceIndex, mCurrentFence, completed,
                   gpuQueue, Fence, waitValue, ObjectCB, MaterialBuffer, PassCB,
                   CmdListAlloc, mAllRitems, mMaterials, numUpdates, numEdits, initFence,
                   lastEdit, copiedAt, geoVars, sceneVars, exitCode, diagnostic, leaving,
                   built>>

\* The steps whose results a build step reads: BuildDescriptorHeaps reads
\* mTextures, BuildRenderItems reads mGeometries and mMaterials,
\* BuildFrameResources reads the sizes of mAllRitems and mMaterials, and
\* BuildPSOs reads mInputLayout, mRootSignature and mShaders
StepReads(step) ==
    CASE step = "BuildDescriptorHeaps" -> {"LoadTextures"}
      [] step = "BuildRenderItems" -> {"BuildShapeGeometry", "BuildMaterials"}
      [] step = "BuildFrameResources" -> {"BuildRenderItems", "BuildMaterials"}
      [] step = "BuildPSOs" -> {"BuildRootSignature", "BuildShadersAndInputLayout"}
      [] OTHER -> {}

\* The next build step of Initialize: each step works on what the steps
\* before it have left in the members it reads
InitializeStep ==
    /\ pc = "building"
    /\ Len(built) < Len(InitializeSteps)
    /\ LET step == InitializeSteps[Len(built) + 1] IN
          /\ built' = Append(built, step)
          /\ IF step = "BuildShapeGeometry"
             THEN geo' = BuildShapeGeometry(meshes) /\ geoPc' = "built"
             ELSE UNCHANGED <<geo, geoPc>>
          /\ IF step = "BuildMaterials"
             THEN mMaterials' = BuildMaterials
             ELSE UNCHANGED mMaterials
          /\ IF step = "BuildRenderItems"
             THEN /\ mAllRitems' = BuildRenderItems
                  /\ mOpaqueRitems' = BuildOpaqueRitems(geo, mMaterials)
                  /\ lastEdit' = [i \in Ritems |-> 0]
                  /\ copiedAt' = [i \in Ritems |-> {}]
             ELSE UNCHANGED <<mAllRitems, mOpaqueRitems, lastEdit, copiedAt>>
          /\ IF step = "BuildFrameResources"
             THEN /\ mFrameResources' = BuildFrameResources(mOpaqueRitems, mMaterials)
                  /\ \E o \in UninitObjectConstants, m \in UninitMaterialData,
                        p \in UninitPassConstants :
                        /\ ObjectCB' = [s \in Slots |-> [i \in Ritems |-> o]]
                        /\ MaterialBuffer' = [s \in Slots |-> [k \in Materials |-> m]]
                        /\ PassCB' = [s \in Slots |-> p]
                  /\ Fence' = [s \in Slots |-> 0]
                  /\ CmdListAlloc' = [s \in Slots |-> 0]
             ELSE UNCHANGED <<mFrameResources, ObjectCB, MaterialBuffer, PassCB, Fence,
                              CmdListAlloc>>
    /\ UNCHANGED <<pc, mCurrFrameResource, mCurrFrameResourceIndex, mCurrentFence,
                   completed, gpuQueue, waitValue, numUpdates, numEdits, initFence, meshes,
                   md3dDevice, exitCode, diagnostic, leaving>>

\* Initialize from the Close of the command list to the wait inside
\* FlushCommandQueue: the initialization commands are submitted
InitializeExecute ==
    /\ pc = "building"
    /\ Len(built) = Len(InitializeSteps)
    /\ gpuQueue' = Append(gpuQueue, <<"exec", Nullptr>>)
    /\ pc' = "initFlush"
    /\ UNCHANGED <<mCurrFrameResource, mCurrFrameResourceIndex, mCurrentFence, completed,
                   Fence, waitValue, ObjectCB, MaterialBuffer, PassCB, CmdListAlloc,
                   mAllRitems, mMaterials, numUpdates, numEdits, initFence, lastEdit,
                   copiedAt, geoVars, sceneVars, lifeVars>>

NextSteps ==
    \/ InitializeBegin
    \/ InitializeStep
    \/ InitializeExecute
    \/ InitializeReturn
    \/ UpdateNoWait
    \/ UpdateBlock
    \/ UpdateResume
    \/ Draw
    \/ GpuExecute
    \/ GpuSignal

SpecSteps == Init /\ [][NextSteps]_vars

----------------------------------------------------------------------------
(* Properties *)

\* Number of Update calls that have returned
UpdatesCompleted == IF pc = "waiting" THEN numUpdates - 1 ELSE numUpdates

\* A step in which Update writes the constant buffers of the current slot
UpdateWrites == pc \in {"frame", "waiting"} /\ pc' = "draw"

\* A step that is a whole Draw
DrawStep == pc = "draw" /\ pc' = "frame"

\* A step in which Update begins: it advances the ring
UpdateBegins == pc = "frame" /\ numUpdates' = numUpdates + 1

\* C1: whenever Update writes the buffers of the current frame resource, or
\* Draw resets its command allocator, the GPU is not consuming that frame
\* resource: its Fence is 0 or the completed fence value has reached it, and
\* no command list recorded for it is still in the queue.
C1_NoWriteWhileGpuConsumes ==
    [][ (UpdateWrites \/ DrawStep) =>
            LET s == mCurrFrameResource' IN
               /\ (Fence[s] = 0 \/ completed >= Fence[s])
               /\ s \notin GpuConsuming ]_vars

\* C1 witness: Update has written a slot that was submitted before, while
\* the GPU is still busy with later frames.
C1_Witness ==
    /\ pc = "draw"
    /\ Fence[mCurrFrameResource] # 0
    /\ completed >= Fence[mCurrFrameResource]
    /\ GpuConsuming # {}

\* C2: every Update advances the ring index to (i+1) mod 3 and makes that
\* slot current; the k-th Update selects slot k mod 3.
C2_RingIndexPeriodic ==
    /\ [](mCurrFrameResourceIndex = numUpdates % 3)
    /\ [][ UpdateBegins =>
              /\ mCurrFrameResourceIndex' = (mCurrFrameResourceIndex + 1) % 3
              /\ mCurrFrameResource' = mCurrFrameResourceIndex' ]_vars

\* C2 witness: the ring has wrapped around, the fourth Update selected slot 1.
C2_Witness ==
    /\ numUpdates = 4
    /\ mCurrFrameResourceIndex = 1
    /\ mCurrFrameResource = 1

\* C3: Update blocks at frame start exactly when the selected slot's Fence is
\* nonzero and the completed value is strictly below it; otherwise it
\* proceeds; when it waits, it waits for that slot's Fence and resumes only
\* once the completed value has reached it.
C3_BlocksIffAwaited ==
    [][ /\ UpdateBegins =>
            LET s == (mCurrFrameResourceIndex + 1) % 3 IN
               /\ (pc' = "waiting") <=> (Fence[s] # 0 /\ completed < Fence[s])
               /\ (pc' # "waiting") => (pc' = "draw")
               /\ (pc' = "waiting") => (waitValue' = Fence[s])
        /\ (pc = "waiting" /\ pc' # "waiting") =>
               completed >= Fence[mCurrFrameResource] ]_vars

\* C3 witness: Update is blocked on a slot whose Fence is older than the
\* newest submitted value.
C3_Witness ==
    /\ pc = "waiting"
    /\ waitValue = Fence[mCurrFrameResource]
    /\ waitValue < mCurrentFence
    /\ completed < waitValue

\* C4: every Draw queues the frame's command list first, then sets the
\* current slot's Fence to the incremented fence counter and asks the queue
\* to signal that same value; the slot is then InFlight, and it stays so
\* while the GPU has not finished its command list.
C4_FenceRecordedAfterSubmit ==
    /\ [][ DrawStep =>
              LET cur == mCurrFrameResource
                  n == Len(gpuQueue) IN
                 /\ mCurrentFence' = mCurrentFence + 1
                 /\ Fence'[cur] = mCurrentFence'
                 /\ Len(gpuQueue') = n + 2
                 /\ gpuQueue'[n + 1] = <<"exec", cur>>
                 /\ gpuQueue'[n + 2] = <<"signal", Fence'[cur]>>
                 /\ completed' < Fence'[cur] ]_vars
    /\ [](\A s \in GpuConsuming : Fence[s] # 0 /\ completed < Fence[s])

\* C4 witness: a Draw has returned and its slot is in flight.
C4_Witness ==
    /\ pc = "frame"
    /\ numUpdates >= 2
    /\ Fence[mCurrFrameResource] = mCurrentFence
    /\ completed < mCurrentFence
    /\ mCurrFrameResource \in GpuConsuming

\* C5: the fence counter never decreases; each Draw raises it by exactly 1;
\* Update and the GPU never change it; the completed value only rises and
\* never passes the last value signalled.
C5_FenceCounterMonotonic ==
    /\ [][ /\ mCurrentFence' >= mCurrentFence
           /\ DrawStep => mCurrentFence' = mCurrentFence + 1
           /\ (UpdateBegins \/ UpdateWrites) => mCurrentFence' = mCurrentFence
           /\ (completed' # completed) =>
                  (completed' > completed /\ (pc # "init" => mCurrentFence' = mCurrentFence)) ]_vars
    /\ [](completed <= mCurrentFence)

\* C5 witness: two frames were submitted and the GPU lags behind.
C5_Witness ==
    /\ pc # "init"
    /\ mCurrentFence >= initFence + 2
    /\ completed > initFence
    /\ completed < mCurrentFence

\* Number of Update calls that have returned since render item i was last
\* edited (or built), at most gNumFrameResources
UpdatesSinceEdit(i) ==
    IF UpdatesCompleted - lastEdit[i] < gNumFrameResources
    THEN UpdatesCompleted - lastEdit[i] ELSE gNumFrameResources

\* The frame resources whose object buffer holds the latest payload of item i
HoldingLatest(i) ==
    { s \in Slots :
        ObjectCB[s][mAllRitems[i].ObjCBIndex] = ObjectConstantsOf(mAllRitems[i], mMaterials) }

\* C6: after an edit of a render item (data changed, NumFramesDirty = 3) the
\* new payload is in all 3 frame resources' copies within the next 3 Update
\* calls, one more copy per Update, and a frame resource's copy does not hold
\* it before the Update in which that frame resource is current: after k
\* Updates the copies holding it are those of the k slots that were current.
C6_EditReachesAllCopies ==
    pc # "init" =>
        \A i \in Ritems :
            HoldingLatest(i) =
                { (lastEdit[i] + j) % 3 : j \in 1..UpdatesSinceEdit(i) }

\* C6 witness: an item edited after the first frames has been propagated to
\* all three frame resources.
C6_Witness ==
    /\ pc # "init"
    /\ \E i \in Ritems :
          /\ lastEdit[i] > 0
          /\ UpdatesCompleted = lastEdit[i] + 3
          /\ HoldingLatest(i) = Slots

\* C7: an item whose dirty count is set to 3 is copied in exactly the next 3
\* update cycles and in no later one, its count going 3, 2, 1, 0; the same
\* holds for the items as built.
C7_ExactlyNCopies ==
    pc # "init" =>
        \A i \in Ritems :
            /\ mAllRitems[i].NumFramesDirty = 3 - UpdatesSinceEdit(i)
            /\ copiedAt[i] = { lastEdit[i] + j : j \in 1..UpdatesSinceEdit(i) }

\* C7 witness: an item built with count 3 was copied in cycles 1, 2, 3, has
\* count 0 and was left alone by a later cycle.
C7_Witness ==
    /\ pc # "init"
    /\ UpdatesCompleted >= 5
    /\ \E i \in Ritems :
          /\ lastEdit[i] = 0
          /\ mAllRitems[i].NumFramesDirty = 0
          /\ copiedAt[i] = {1, 2, 3}

\* C8: with the fence counter at 0 after Initialize, frames 1, 2, 3 record
\* fence values 1, 2, 3; frame 4 selects frame 1's slot and blocks until the
\* completed value reaches 1, and may go on as soon as it does, whatever the
\* state of frames 2 and 3; frame 5 waits for value 2 only.
C8_FrameFourWaitsForFrameOne ==
    (pc # "init" /\ initFence = 0) =>
        /\ (numUpdates = 3 /\ pc = "frame") =>
               (Fence[1] = 1 /\ Fence[2] = 2 /\ Fence[0] = 3)
        /\ (numUpdates = 4 /\ pc \in {"waiting", "draw"}) =>
               /\ mCurrFrameResource = 1
               /\ Fence[mCurrFrameResource] = 1
               /\ (pc = "waiting") => (waitValue = 1)
               /\ (pc = "waiting" /\ completed >= 1) => ENABLED UpdateResume
               /\ (pc = "draw") => (completed >= 1)
        /\ (numUpdates = 5 /\ pc \in {"waiting", "draw"}) =>
               /\ mCurrFrameResource = 2
               /\ Fence[mCurrFrameResource] = 2
               /\ (pc = "waiting") => (waitValue = 2)
               /\ (pc = "waiting" /\ completed >= 2) => ENABLED UpdateResume
               /\ (pc = "draw") => (completed >= 2)

\* C8 witness: frame 4 had to wait and went on with frames 2 and 3 still
\* incomplete.
C8_Witness ==
    /\ initFence = 0
    /\ numUpdates = 4
    /\ pc = "draw"
    /\ completed = 1
    /\ mCurrentFence = 3

\* C9 as stated: from the end of Initialize on, mCurrFrameResource designates
\* exactly one slot, the one at mCurrFrameResourceIndex, and every other slot
\* is InFlight or Free.
C9_Original ==
    pc # "init" =>
        /\ mCurrFrameResource \in Slots
        /\ mCurrFrameResource = mCurrFrameResourceIndex
        /\ \A s \in Slots \ {mCurrFrameResource} : InFlight(s) \/ Free(s)

\* C9 amended: from the first Update on, mCurrFrameResource designates
\* exactly one slot, the one at mCurrFrameResourceIndex, and every other slot
\* is InFlight or Free; between Initialize and the first Update it is null
\* while the index is 0.
C9_OneCurrentAfterFirstUpdate ==
    /\ (pc # "init" /\ numUpdates >= 1) =>
           /\ mCurrFrameResource \in Slots
           /\ mCurrFrameResource = mCurrFrameResourceIndex
           /\ Cardinality({ s \in Slots : s = mCurrFrameResource }) = 1
           /\ \A s \in Slots \ {mCurrFrameResource} : InFlight(s) \/ Free(s)
    /\ (numUpdates = 0) =>
           (mCurrFrameResource = Nullptr /\ mCurrFrameResourceIndex = 0)

\* C9 witness: a frame is current while another slot is in flight and a
\* third is free.
C9_Witness ==
    /\ numUpdates >= 3
    /\ mCurrFrameResource = mCurrFrameResourceIndex
    /\ \E s \in Slots \ {mCurrFrameResource} : InFlight(s)
    /\ \E s \in Slots \ {mCurrFrameResource} : Free(s)

\* C10: for every mesh k and every index value v stored in mesh k's range of
\* the shared index buffer, the vertex at BaseVertexLocation + v of the
\* shared vertex buffer is the v-th vertex of mesh k (and v is the index the
\* mesh holds at that place).
C10_NoCrossMeshAliasing ==
    geoPc = "built" =>
        \A k \in 1..NumMeshes :
            LET sub == geo.DrawArgs[k] IN
            \A p \in sub.StartIndexLocation .. (sub.StartIndexLocation + sub.IndexCount - 1) :
                /\ p < Len(geo.indices)
                /\ LET v == geo.indices[p + 1] IN
                      /\ v = meshes[k].Indices32[p - sub.StartIndexLocation + 1]
                      /\ v < Len(meshes[k].Vertices)
                      /\ sub.BaseVertexLocation + v < Len(geo.vertices)
                      /\ geo.vertices[sub.BaseVertexLocation + v + 1] = meshes[k].Vertices[v + 1]
                      /\ geo.vertices[sub.BaseVertexLocation + v + 1][1] = k

\* C10 witness: packed meshes of different sizes, the last one addressing
\* its last vertex.
C10_Witness ==
    /\ geoPc = "built"
    /\ Len(meshes[1].Vertices) = 3
    /\ Len(meshes[2].Vertices) = 1
    /\ Len(meshes[NumMeshes].Vertices) = 2
    /\ \E p \in 1..Len(geo.indices) :
          /\ p > geo.DrawArgs[NumMeshes].StartIndexLocation
          /\ geo.indices[p] = 1

\* The part of sequence q from offset first (0-based), n elements long
Range(q, first, n) == [j \in 1..n |-> q[first + j]]

\* C11: each mesh's triple is (its index count, the index counts of the
\* meshes placed before it, the vertex counts of the meshes placed before
\* it); offsets, vertex copies and index appends use the same order, so the
\* 14 sub-ranges start at 0, follow one another without gap or overlap, end
\* at the end of the arrays and hold the mesh's own vertices and indices.
C11_SubmeshRangesPartition ==
    geoPc = "built" =>
        /\ geo.DrawArgs[1].StartIndexLocation = 0
        /\ geo.DrawArgs[1].BaseVertexLocation = 0
        /\ \A k \in 1..NumMeshes :
              LET sub == geo.DrawArgs[k]
                  nv == Len(meshes[k].Vertices)
                  endI == sub.StartIndexLocation + sub.IndexCount
                  endV == sub.BaseVertexLocation + nv IN
                 /\ sub.IndexCount = Len(meshes[k].Indices32)
                 /\ endI <= Len(geo.indices)
                 /\ endV <= Len(geo.vertices)
                 /\ IF k < NumMeshes
                    THEN /\ geo.DrawArgs[k + 1].StartIndexLocation = endI
                         /\ geo.DrawArgs[k + 1].BaseVertexLocation = endV
                    ELSE /\ endI = Len(geo.indices)
                         /\ endV = Len(geo.vertices)
                 /\ Range(geo.vertices, sub.BaseVertexLocation, nv) = meshes[k].Vertices
                 /\ Range(geo.indices, sub.StartIndexLocation, sub.IndexCount)
                        = meshes[k].Indices32

\* C11 witness: meshes of three different sizes were packed; the last mesh
\* starts after 13 meshes' vertices and indices.
C11_Witness ==
    /\ geoPc = "built"
    /\ Len(meshes[1].Vertices) = 2
    /\ Len(meshes[2].Vertices) = 3
    /\ Len(meshes[3].Vertices) = 1
    /\ geo.DrawArgs[NumMeshes].BaseVertexLocation = Len(geo.vertices) - 1
    /\ geo.DrawArgs[NumMeshes].StartIndexLocation = Len(geo.indices) - 3


\* The positions of the thread once WinMain is being left
Leaving == {"returning", "unwinding", "caught", "exited"}

\* C12: a failed checked call in Initialize or in the frame loop throws at
\* once and ends the run: from the failure on no Update or Draw step is taken,
\* the thread never goes back to the operation that failed, and the run ends
\* with the "HR Failed" message and exit value 0. A false result of the base
\* initialization ends the run with exit value 0 before any frame has run.
C12_FailureEndsRun ==
    /\ [][(leaving = "none" /\ leaving' = "throw") => pc' = "unwinding"]_vars
    /\ [][leaving # "none" =>
              /\ pc' \in Leaving
              /\ leaving' = leaving
              /\ UNCHANGED <<mCurrFrameResource, mCurrFrameResourceIndex, mCurrentFence,
                             Fence, waitValue, ObjectCB, MaterialBuffer, PassCB,
                             CmdListAlloc, mAllRitems, mMaterials, numUpdates>>]_vars
    /\ [][(pc = "unwinding" /\ pc' # pc) => pc' = "caught"]_vars
    /\ [][pc = "caught" => (pc' = "exited" /\ diagnostic' /\ exitCode' = 0)]_vars
    /\ []((leaving = "throw" /\ pc = "exited") => (diagnostic /\ exitCode = 0))
    /\ []((leaving = "throw" /\ pc # "exited") => (pc \in Leaving /\ exitCode = Nullptr))
    /\ [](leaving = "initFalse" =>
              /\ pc \in {"returning", "exited"}
              /\ exitCode = 0
              /\ numUpdates = 0
              /\ mCurrentFence = 0
              /\ gpuQueue = <<>>
              /\ mFrameResources = <<>>)

\* C12 witness: a call of Draw failed after the ring had wrapped, once the
\* allocator of the current slot had been reset, and the run has ended.
C12_Witness ==
    /\ pc = "exited"
    /\ leaving = "throw"
    /\ diagnostic
    /\ exitCode = 0
    /\ numUpdates > gNumFrameResources
    /\ CmdListAlloc[mCurrFrameResource] = numUpdates
    /\ Fence[mCurrFrameResource] < mCurrentFence

\* C13: the wait of Update has no other way out than the fence reaching the
\* awaited value, which is the Fence of the current slot: while the completed
\* value stays below it no step of the thread is possible (no timeout, no
\* cancellation, no failure, no quit), Update does not return and no frame is
\* produced.
C13_WaitIsUnbounded ==
    /\ [](pc = "waiting" =>
              /\ waitValue # 0
              /\ waitValue = Fence[mCurrFrameResource])
    /\ []((pc = "waiting" /\ completed < waitValue) => ~ENABLED CpuStep)
    /\ [][(pc = "waiting" /\ pc' # "waiting") => (completed >= waitValue /\ pc' = "draw")]_vars
    /\ [][(pc = "waiting" /\ completed' < waitValue) =>
              /\ pc' = "waiting"
              /\ UNCHANGED <<mCurrFrameResource, mCurrFrameResourceIndex, mCurrentFence,
                             Fence, waitValue, ObjectCB, MaterialBuffer, PassCB,
                             CmdListAlloc, numUpdates, lifeVars>>]_vars

\* C13 witness: Update is suspended on a slot the GPU has not finished, after
\* the ring has wrapped.
C13_Witness ==
    /\ pc = "waiting"
    /\ completed < waitValue
    /\ numUpdates > gNumFrameResources
    /\ ~ENABLED CpuStep

\* The thread is suspended: the run has not ended and it can take no step
CpuBlocked == pc # "exited" /\ ~ENABLED CpuStep

\* Suspended in the wait of Update
FenceWaitBlocked == pc = "waiting" /\ completed < waitValue

\* Suspended in FlushCommandQueue, called by Initialize and by the destructor
FlushBlocked ==
    /\ pc \in {"initFlush", "returning", "unwinding"}
    /\ md3dDevice
    /\ gpuQueue # <<>>

\* C14 as stated: the thread is suspended on the GPU only in the wait of
\* Update.
C14_Original == CpuBlocked => pc = "waiting"

\* C14: within the frame loop the wait of Update is the only point where the
\* thread is suspended on the GPU (Draw never is); outside the loop it is also
\* suspended in FlushCommandQueue, at the end of Initialize and in the
\* destructor, until the GPU has processed all submitted work.
C14_BlockingPoints ==
    /\ CpuBlocked <=> (FenceWaitBlocked \/ FlushBlocked)
    /\ pc \in {"frame", "draw"} => ~CpuBlocked

\* C14 witness: the destructor is suspended on frames the GPU has not
\* finished, after the message loop has ended.
C14_Witness ==
    /\ pc = "returning"
    /\ leaving = "quit"
    /\ numUpdates > gNumFrameResources
    /\ CpuBlocked
    /\ FlushBlocked


\* C15: once Initialize has run there are exactly gNumFrameResources frame
\* resources, and no later step (Update, Draw, or any other) creates or
\* destroys a frame resource, a render item or a material, or changes a render
\* item's ObjCBIndex, material, geometry or draw arguments.
C15_SceneSetsFixed ==
    /\ [](pc # "init" =>
              /\ DOMAIN mFrameResources = Slots
              /\ Cardinality(DOMAIN mFrameResources) = gNumFrameResources
              /\ DOMAIN Fence = Slots
              /\ DOMAIN ObjectCB = Slots
              /\ DOMAIN MaterialBuffer = Slots
              /\ DOMAIN PassCB = Slots
              /\ DOMAIN mAllRitems = Ritems
              /\ DOMAIN mMaterials = Materials)
    /\ [][pc # "init" =>
              /\ UNCHANGED <<mFrameResources, mOpaqueRitems, geo>>
              /\ DOMAIN mAllRitems' = DOMAIN mAllRitems
              /\ DOMAIN mMaterials' = DOMAIN mMaterials
              /\ \A s \in Slots :
                    /\ DOMAIN ObjectCB'[s] = DOMAIN ObjectCB[s]
                    /\ DOMAIN MaterialBuffer'[s] = DOMAIN MaterialBuffer[s]
              /\ \A i \in Ritems :
                    /\ mAllRitems'[i].ObjCBIndex = mAllRitems[i].ObjCBIndex
                    /\ mAllRitems'[i].Mat = mAllRitems[i].Mat
                    /\ mAllRitems'[i].ObjCBIndex = mOpaqueRitems'[i + 1].ObjCBIndex
                    /\ mAllRitems'[i].Mat = mOpaqueRitems'[i + 1].Mat
              /\ \A m \in Materials :
                    mMaterials'[m].MatCBIndex = mMaterials[m].MatCBIndex]_vars

\* C15 witness: the ring has gone round twice, with updates that copied
\* items and updates that skipped them.
C15_Witness ==
    /\ pc = "frame"
    /\ numUpdates = 2 * gNumFrameResources
    /\ Cardinality(DOMAIN mFrameResources) = 3
    /\ \A i \in Ritems : mAllRitems[i].NumFramesDirty = 0
    /\ mAllRitems[1].ObjCBIndex = 1
    /\ mOpaqueRitems[2].IndexCount = geo.DrawArgs[MeshIndex("container")].IndexCount

\* C16: the ObjCBIndex values given by BuildRenderItems are pairwise distinct
\* and are exactly 0 .. n-1 for the n render items, and every frame resource
\* is created with room for n objects, so every index is below the capacity.
C16_OneSlotPerRitem ==
    pc # "init" =>
        LET n == Len(mOpaqueRitems) IN
           /\ \A a, b \in 1..n :
                 a # b => mOpaqueRitems[a].ObjCBIndex # mOpaqueRitems[b].ObjCBIndex
           /\ { mOpaqueRitems[a].ObjCBIndex : a \in 1..n } = 0 .. (n - 1)
           /\ \A s \in Slots :
                 /\ mFrameResources[s].objectCount = n
                 /\ \A a \in 1..n : mOpaqueRitems[a].ObjCBIndex < mFrameResources[s].objectCount
           /\ \A i \in Ritems : mAllRitems[i].ObjCBIndex = mOpaqueRitems[i + 1].ObjCBIndex

\* C16 witness: the scene of 50 render items is built, the last one pushed
\* by the last loop with index 49, and frames are running.
C16_Witness ==
    /\ pc = "draw"
    /\ Len(mOpaqueRitems) = 50
    /\ mOpaqueRitems[50].ObjCBIndex = 49
    /\ mOpaqueRitems[17].ObjCBIndex = 16
    /\ mFrameResources[0].objectCount = 50


\* C17: in an update cycle a render item with dirty count 0 is skipped, its
\* slot of the current frame resource and its count staying as they are; an
\* item with a positive count has its constants copied to its own slot
\* (ObjCBIndex) of the current frame resource and its count lowered by exactly
\* 1, nothing else of it changing. The same holds of the materials with
\* MatCBIndex.
C17_DirtyCopiedCleanSkipped ==
    [][UpdateWrites =>
          LET cur == mCurrFrameResource' IN
             /\ \A i \in Ritems :
                   LET e == mAllRitems[i] IN
                      IF e.NumFramesDirty = 0
                      THEN /\ ObjectCB'[cur][e.ObjCBIndex] = ObjectCB[cur][e.ObjCBIndex]
                           /\ mAllRitems'[i] = e
                      ELSE /\ ObjectCB'[cur][e.ObjCBIndex] = ObjectConstantsOf(e, mMaterials)
                           /\ mAllRitems'[i].NumFramesDirty = e.NumFramesDirty - 1
                           /\ mAllRitems'[i] = [e EXCEPT !.NumFramesDirty = e.NumFramesDirty - 1]
             /\ \A m \in Materials :
                   LET mat == mMaterials[m] IN
                      IF mat.NumFramesDirty = 0
                      THEN /\ MaterialBuffer'[cur][mat.MatCBIndex] = MaterialBuffer[cur][mat.MatCBIndex]
                           /\ mMaterials'[m] = mat
                      ELSE /\ MaterialBuffer'[cur][mat.MatCBIndex] = MaterialDataOf(mat)
                           /\ mMaterials'[m].NumFramesDirty = mat.NumFramesDirty - 1
                           /\ mMaterials'[m] = [mat EXCEPT !.NumFramesDirty = mat.NumFramesDirty - 1]]_vars

\* C17 witness: an update cycle has just copied the edited item 0 to the
\* current slot and skipped item 1 and every material, whose counts were 0.
C17_Witness ==
    /\ pc = "draw"
    /\ numUpdates > gNumFrameResources
    /\ mAllRitems[0].NumFramesDirty = gNumFrameResources - 1
    /\ mAllRitems[1].NumFramesDirty = 0
    /\ \A m \in Materials : mMaterials[m].NumFramesDirty = 0
    /\ ObjectCB[mCurrFrameResource][0] = ObjectConstantsOf(mAllRitems[0], mMaterials)
    /\ ObjectCB[mCurrFrameResource][1] = ObjectConstantsOf(mAllRitems[1], mMaterials)


\* The larger of two numbers
Max(a, b) == IF a >= b THEN a ELSE b

\* C18: the materials are propagated by themselves. Only an update cycle
\* changes a material's count or a material-buffer slot, and what it does to
\* them depends on the materials alone; the render items' counts and
\* object-buffer slots depend on the render items alone. A material built with
\* count gNumFrameResources has count gNumFrameResources - k after k update
\* cycles and is in the material buffers of all frame resources after
\* gNumFrameResources cycles, whatever the counts of the render items using it.
C18_MaterialsPropagateAlone ==
    /\ [](pc # "init" =>
              \A m \in Materials :
                 /\ mMaterials[m].NumFramesDirty = Max(0, gNumFrameResources - UpdatesCompleted)
                 /\ UpdatesCompleted >= gNumFrameResources =>
                       \A s \in Slots :
                          MaterialBuffer[s][mMaterials[m].MatCBIndex] = MaterialDataOf(mMaterials[m]))
    /\ [][(pc # "init" /\ ~UpdateWrites) => UNCHANGED <<mMaterials, MaterialBuffer>>]_vars
    /\ [][UpdateWrites =>
              LET cur == mCurrFrameResource' IN
                 /\ \A m \in Materials :
                       /\ mMaterials'[m].NumFramesDirty = Max(0, mMaterials[m].NumFramesDirty - 1)
                       /\ MaterialBuffer'[cur][m] \in {MaterialBuffer[cur][m], MaterialDataOf(mMaterials[m])}
                 /\ \A i \in Ritems :
                       /\ mAllRitems'[i].NumFramesDirty = Max(0, mAllRitems[i].NumFramesDirty - 1)
                       /\ ObjectCB'[cur][i] \in {ObjectCB[cur][i], ObjectConstantsOf(mAllRitems[i], mMaterials)}]_vars

\* C18 witness: the material of render item 0 has reached all frame
\* resources and has count 0 while the item itself, just edited, has count
\* gNumFrameResources.
C18_Witness ==
    /\ pc = "frame"
    /\ numUpdates = gNumFrameResources
    /\ mAllRitems[0].NumFramesDirty = gNumFrameResources
    /\ mAllRitems[1].NumFramesDirty = 0
    /\ mMaterials[mAllRitems[0].Mat].NumFramesDirty = 0
    /\ \A s \in Slots :
          MaterialBuffer[s][mAllRitems[0].Mat] = MaterialDataOf(mMaterials[mAllRitems[0].Mat])

\* C19: an Update writes the object, material and pass buffers of the frame
\* resource it selected only, and no Fence; the Draw that follows writes no
\* buffer and changes the Fence of that same frame resource only.
C19_OnlyCurrentSlotWritten ==
    /\ [][UpdateBegins => UNCHANGED Fence]_vars
    /\ [][(UpdateBegins /\ pc' = "waiting") => UNCHANGED <<ObjectCB, MaterialBuffer, PassCB>>]_vars
    /\ [][UpdateWrites =>
              /\ mCurrFrameResource' = mCurrFrameResourceIndex'
              /\ PassCB'[mCurrFrameResource'] = MainPassCB(numUpdates')
              /\ UNCHANGED Fence
              /\ \A s \in Slots \ {mCurrFrameResource'} :
                    /\ ObjectCB'[s] = ObjectCB[s]
                    /\ MaterialBuffer'[s] = MaterialBuffer[s]
                    /\ PassCB'[s] = PassCB[s]]_vars
    /\ [][DrawStep =>
              /\ UNCHANGED <<ObjectCB, MaterialBuffer, PassCB, mCurrFrameResource>>
              /\ Fence'[mCurrFrameResource] = mCurrentFence'
              /\ Fence'[mCurrFrameResource] # Fence[mCurrFrameResource]
              /\ \A s \in Slots \ {mCurrFrameResource} : Fence'[s] = Fence[s]]_vars

\* C19 witness: after five frames every frame resource holds the pass
\* constants and the Fence of the last frame that used it.
C19_Witness ==
    /\ pc = "frame"
    /\ numUpdates = 5
    /\ mCurrFrameResource = 2
    /\ PassCB[2] = MainPassCB(5)
    /\ PassCB[1] = MainPassCB(4)
    /\ PassCB[0] = MainPassCB(3)
    /\ Fence[2] = mCurrentFence
    /\ Fence[1] = mCurrentFence - 1
    /\ Fence[0] = mCurrentFence - 2

\* Frame resources whose object buffer does not hold the current constants of
\* render item i
RitemLacking(i) ==
    { s \in Slots :
        ObjectCB[s][mAllRitems[i].ObjCBIndex] # ObjectConstantsOf(mAllRitems[i], mMaterials) }

\* Frame resources whose material buffer does not hold the current data of
\* material m
MaterialLacking(m) ==
    { s \in Slots :
        MaterialBuffer[s][mMaterials[m].MatCBIndex] # MaterialDataOf(mMaterials[m]) }

\* The next n slots in ring order after the current one
NextSlots(n) == { (mCurrFrameResourceIndex + j) % gNumFrameResources : j \in 1..n }

\* C20: between two update cycles, with every edit setting the count to
\* gNumFrameResources, the dirty count of a render item (of a material) is in
\* 0 .. gNumFrameResources and is the number of frame resources whose copy
\* has not received its latest value; these are the next that many slots in
\* ring order after the current one.
C20_DirtyCountsMissingCopies ==
    pc \in {"frame", "draw"} =>
        /\ \A i \in Ritems :
              /\ mAllRitems[i].NumFramesDirty \in 0..gNumFrameResources
              /\ Cardinality(RitemLacking(i)) = mAllRitems[i].NumFramesDirty
              /\ RitemLacking(i) = NextSlots(mAllRitems[i].NumFramesDirty)
        /\ \A m \in Materials :
              /\ mMaterials[m].NumFramesDirty \in 0..gNumFrameResources
              /\ Cardinality(MaterialLacking(m)) = mMaterials[m].NumFramesDirty
              /\ MaterialLacking(m) = NextSlots(mMaterials[m].NumFramesDirty)

\* C20 witness: item 0 was edited after the first round of the ring and one
\* update cycle has copied it since: the slot after the current one and the
\* one after that still lack the new value, and item 1 lacks nowhere.
C20_Witness ==
    /\ pc = "frame"
    /\ numUpdates > gNumFrameResources
    /\ lastEdit[0] >= gNumFrameResources
    /\ mAllRitems[0].NumFramesDirty = 2
    /\ RitemLacking(0) = Slots \ {mCurrFrameResourceIndex}
    /\ RitemLacking(1) = {}
    /\ \A m \in Materials : MaterialLacking(m) = {}


\* C21: the wait of Update has no error outcome. Whenever the thread leaves
\* the wait, whether the fence has reached the awaited value or the wait has
\* failed, Update writes the buffers of the current slot and returns; the
\* only failure Update raises is that of registering the completion event,
\* which happens before the wait and writes nothing.
C21_WaitFailureUnhandled ==
    /\ [][(pc = "waiting" /\ pc' # "waiting") =>
              /\ pc' = "draw"
              /\ leaving' = "none"
              /\ PassCB'[mCurrFrameResource] = MainPassCB(numUpdates)
              /\ \A i \in Ritems :
                    mAllRitems[i].NumFramesDirty > 0 =>
                       ObjectCB'[mCurrFrameResource][mAllRitems[i].ObjCBIndex] =
                          ObjectConstantsOf(mAllRitems[i], mMaterials)]_vars
    /\ [][(pc \in {"frame", "waiting"} /\ leaving = "none" /\ leaving' = "throw") =>
              /\ pc = "frame"
              /\ pc' = "unwinding"
              /\ MustWait(Fence[mCurrFrameResource'], completed)
              /\ UNCHANGED <<ObjectCB, MaterialBuffer, PassCB, waitValue>>]_vars

\* C21 witness: Update has written the current slot after a wait that failed,
\* while the fence has not reached the Fence recorded for that slot.
C21_Witness ==
    /\ pc = "draw"
    /\ leaving = "none"
    /\ Fence[mCurrFrameResource] # 0
    /\ completed < Fence[mCurrFrameResource]
    /\ PassCB[mCurrFrameResource] = MainPassCB(numUpdates)


\* C22: every frame resource has one pass-buffer element, and every Update
\* writes the pass constants it computes into it, whatever the dirty counts:
\* the pass constants Draw binds, and those the GPU reads when it executes
\* the frame, are the ones computed by the Update of that same frame.
C22_PassConstantsOfSameFrame ==
    /\ [](pc # "init" => \A s \in Slots : mFrameResources[s].passCount = 1)
    /\ [][UpdateWrites => PassCB'[mCurrFrameResource'].TotalTime = numUpdates']_vars
    /\ [](pc = "draw" => PassCB[mCurrFrameResource].TotalTime = numUpdates)
    /\ [](pc # "init" => \A s \in GpuConsuming : PassCB[s].TotalTime = CmdListAlloc[s])

\* C22 witness: the fifth Update found nothing dirty and its pass constants
\* are in the current slot for Draw, while the GPU still executes an earlier
\* frame with its own.
C22_Witness ==
    /\ pc = "draw"
    /\ numUpdates = 5
    /\ PassCB[mCurrFrameResource].TotalTime = 5
    /\ \A i \in Ritems : mAllRitems[i].NumFramesDirty = 0
    /\ \A m \in Materials : mMaterials[m].NumFramesDirty = 0
    /\ \E s \in GpuConsuming : PassCB[s].TotalTime = 4


\* C23: with a GPU that in the end completes every fence value signalled,
\* every Update that starts waiting stops waiting and goes on to its writes,
\* and the frame loop does not get stuck: every frame up to the bound of the
\* model is produced. The value awaited was signalled by an earlier Draw: it
\* is still in the queue or already completed.
C23_WaitEndsUnderFairness ==
    /\ (pc = "waiting") ~> (pc = "draw")
    /\ \A k \in 1..MaxFrames : <>(numUpdates = k /\ pc = "frame")
    /\ [](pc = "waiting" =>
              /\ waitValue \in PendingSignals \/ completed >= waitValue
              /\ waitValue > initFence
              /\ waitValue <= mCurrentFence)

\* C23 witness: Update is waiting for a value whose signal is still in the
\* queue behind the command list of the frame.
C23_Witness ==
    /\ pc = "waiting"
    /\ completed < waitValue
    /\ waitValue \in PendingSignals
    /\ mCurrFrameResource \in GpuConsuming


\* C24: whenever Draw is about to record the draw calls of a frame, with
\* edits made before the update step and setting the count to
\* gNumFrameResources, the current frame resource holds for every render item
\* its transposed World and TexTransform and the MatCBIndex of its material,
\* and for every material its data: no frame is drawn from a stale or
\* never-written slot, the first frame included.
C24_DrawReadsLatest ==
    pc = "draw" =>
        /\ numUpdates >= 1
        /\ \A i \in Ritems :
              LET e == mAllRitems[i]
                  oc == ObjectCB[mCurrFrameResource][e.ObjCBIndex] IN
                 /\ oc.World = XMMatrixTranspose(e.World)
                 /\ oc.TexTransform = XMMatrixTranspose(e.TexTransform)
                 /\ oc.MaterialIndex = mMaterials[e.Mat].MatCBIndex
        /\ \A m \in Materials :
              LET mat == mMaterials[m]
                  md == MaterialBuffer[mCurrFrameResource][mat.MatCBIndex] IN
                 /\ md.Roughness = mat.Roughness
                 /\ md.MatTransform = XMMatrixTranspose(mat.MatTransform)
                 /\ md.DiffuseMapIndex = mat.DiffuseSrvHeapIndex

\* C24 witness: Draw is about to record a frame whose Update copied an item
\* edited just before it, the two other frame resources still holding the
\* item's old constants.
C24_Witness ==
    /\ pc = "draw"
    /\ numUpdates > gNumFrameResources
    /\ lastEdit[0] = numUpdates - 1
    /\ mAllRitems[0].NumFramesDirty = gNumFrameResources - 1
    /\ \A s \in Slots \ {mCurrFrameResource} :
          ObjectCB[s][0].World # XMMatrixTranspose(mAllRitems[0].World)


\* Frames submitted by Draw that the GPU has not completed
FramesInFlight == Cardinality(PendingSignals)

\* C25: the number of frames submitted by Draw and not completed by the GPU
\* is never more than gNumFrameResources, and is at most
\* gNumFrameResources - 1 when Update, its wait over, writes the current slot.
C25_AtMostNFramesAhead ==
    /\ [](pc # "init" =>
              /\ FramesInFlight = mCurrentFence - completed
              /\ FramesInFlight <= gNumFrameResources)
    /\ [][UpdateWrites => FramesInFlight <= gNumFrameResources - 1]_vars
    /\ [](pc = "draw" => FramesInFlight <= gNumFrameResources - 1)

\* C25 witness: three frames are submitted and none is completed; the next
\* Update has to wait.
C25_Witness ==
    /\ pc = "frame"
    /\ FramesInFlight = gNumFrameResources
    /\ \A s \in Slots : InFlight(s)
    /\ ENABLED UpdateBlock


\* C26: the Fence of a frame resource is 0 exactly when no Draw has submitted
\* it; the nonzero Fence values are pairwise distinct; right after a Draw the
\* Fence of the current slot is the fence counter and the largest of all; once
\* every slot has been submitted, the slot an Update selects holds the
\* smallest Fence.
C26_FenceValuesOrdered ==
    /\ [](pc # "init" =>
              /\ \A s \in Slots : (Fence[s] = 0) <=> (CmdListAlloc[s] = 0)
              /\ \A s, t \in Slots :
                    (s # t /\ Fence[s] # 0 /\ Fence[t] # 0) => Fence[s] # Fence[t])
    /\ [][DrawStep =>
              /\ Fence'[mCurrFrameResource] = mCurrentFence'
              /\ \A s \in Slots \ {mCurrFrameResource} : Fence'[s] < Fence'[mCurrFrameResource]]_vars
    /\ []((pc = "frame" /\ numUpdates >= 1) =>
              /\ Fence[mCurrFrameResource] = mCurrentFence
              /\ \A s \in Slots : Fence[s] <= Fence[mCurrFrameResource])
    /\ [][(UpdateBegins /\ \A s \in Slots : Fence[s] # 0) =>
              \A s \in Slots \ {mCurrFrameResource'} :
                 Fence[mCurrFrameResource'] < Fence[s]]_vars

\* C26 witness: four frames are submitted; the slot the next Update selects
\* holds the smallest Fence and the current one the largest.
C26_Witness ==
    /\ pc = "frame"
    /\ numUpdates = gNumFrameResources + 1
    /\ \A s \in Slots : Fence[s] # 0
    /\ Fence[mCurrFrameResource] = mCurrentFence
    /\ \A s \in Slots \ {NextFrameResourceIndex(mCurrFrameResourceIndex)} :
          Fence[NextFrameResourceIndex(mCurrFrameResourceIndex)] < Fence[s]


\* C27: the registered materials are the four materials bricks0, stone0,
\* tile0, crate0; their MatCBIndex values are pairwise distinct and below the
\* material count every frame resource was created with, which is 4, and
\* their DiffuseSrvHeapIndex values are below the 4 descriptors of the SRV
\* heap. The fifth material, diaMat, is not registered: index 4 is never the
\* slot or the content of a material-buffer element nor the material index of
\* an object-buffer element.
C27_MaterialIndicesInRange ==
    pc # "init" =>
        /\ Cardinality(DOMAIN mMaterials) = NumMaterials
        /\ \A m \in DOMAIN mMaterials :
              /\ mMaterials[m].Name \in {"bricks0", "stone0", "tile0", "crate0"}
              /\ mMaterials[m].Name # "diaMat"
              /\ mMaterials[m].DiffuseSrvHeapIndex < NumSrvDescriptors
              /\ \A s \in Slots :
                    /\ mFrameResources[s].materialCount = NumMaterials
                    /\ mMaterials[m].MatCBIndex < mFrameResources[s].materialCount
              /\ \A n \in DOMAIN mMaterials :
                    m # n => mMaterials[m].MatCBIndex # mMaterials[n].MatCBIndex
        /\ \A s \in Slots :
              /\ \A k \in DOMAIN MaterialBuffer[s] :
                    /\ k < NumMaterials
                    /\ MaterialBuffer[s][k].DiffuseMapIndex < NumSrvDescriptors
              /\ \A i \in DOMAIN ObjectCB[s] : ObjectCB[s][i].MaterialIndex < NumMaterials

\* C27 witness: the material of the highest index, crate0, has been written
\* to the material buffer of every frame resource.
C27_Witness ==
    /\ pc = "draw"
    /\ numUpdates = gNumFrameResources
    /\ mMaterials[3].Name = "crate0"
    /\ mMaterials[3].MatCBIndex = 3
    /\ \A s \in Slots : MaterialBuffer[s][3].DiffuseMapIndex = 3


\* C28: every name BuildRenderItems looks up was registered before: the Mat
\* of every render item is one of the registered materials bricks0, stone0,
\* tile0, crate0 and not null, its Geo is the registered "shapeGeo", and its
\* draw arguments are the triple of one of the 14 submeshes of DrawArgs, not
\* those of an empty entry made by the lookup.
C28_LookupsFindRegisteredNames ==
    pc # "init" =>
        /\ \A n \in 1..Len(mOpaqueRitems) :
              LET r == mOpaqueRitems[n] IN
                 /\ r.Mat # Nullptr
                 /\ r.Mat \in DOMAIN mMaterials
                 /\ mMaterials[r.Mat].Name \in {"bricks0", "stone0", "tile0", "crate0"}
                 /\ mMaterials[r.Mat].Name = RitemTable[n][3]
                 /\ r.Geo = "shapeGeo"
                 /\ r.IndexCount > 0
                 /\ \E k \in 1..NumMeshes :
                       /\ MeshNames[k] = RitemTable[n][2]
                       /\ r.IndexCount = geo.DrawArgs[k].IndexCount
                       /\ r.StartIndexLocation = geo.DrawArgs[k].StartIndexLocation
                       /\ r.BaseVertexLocation = geo.DrawArgs[k].BaseVertexLocation
        /\ \A i \in Ritems :
              /\ mAllRitems[i].Mat \in DOMAIN mMaterials
              /\ mAllRitems[i].Mat = mOpaqueRitems[i + 1].Mat

\* C28 witness: the star item, which uses the submesh registered last and
\* the material registered last, is built with both, and frames are drawn.
C28_Witness ==
    /\ pc = "draw"
    /\ mOpaqueRitems[37].ObjCBIndex = 36
    /\ mMaterials[mOpaqueRitems[37].Mat].Name = "crate0"
    /\ mOpaqueRitems[37].StartIndexLocation = geo.DrawArgs[NumMeshes].StartIndexLocation
    /\ mOpaqueRitems[37].StartIndexLocation > 0

\* C29: Initialize runs every build step only after the steps whose results
\* it reads: textures before the descriptor heap, geometry and materials
\* before render items, render items and materials before frame resources
\* (which are therefore sized for the 50 render items and 4 materials), root
\* signature and shaders before the pipeline state. The initialization
\* commands are submitted only after all nine steps, Initialize returns only
\* after they have been executed, and no Update or Draw runs before that.
C29_StepsAfterWhatTheyRead ==
    [][/\ built' # built =>
             /\ Len(built') = Len(built) + 1
             /\ \A r \in StepReads(built'[Len(built')]) :
                   \E j \in 1..Len(built) : built[j] = r
       /\ mFrameResources' # <<>> =>
             \A s \in Slots :
                /\ mFrameResources'[s].objectCount = Len(mOpaqueRitems')
                /\ mFrameResources'[s].objectCount = 50
                /\ mFrameResources'[s].materialCount = 4
       /\ gpuQueue' # gpuQueue /\ pc = "building" =>
             /\ Len(built) = 9
             /\ { built[j] : j \in 1..9 } =
                   {"LoadTextures", "BuildRootSignature", "BuildDescriptorHeaps",
                    "BuildShadersAndInputLayout", "BuildShapeGeometry", "BuildMaterials",
                    "BuildRenderItems", "BuildFrameResources", "BuildPSOs"}
             /\ pc' = "initFlush"
       /\ pc \in {"init", "building"} => gpuQueue = <<>>
       /\ pc = "initFlush" /\ pc' # pc => pc' = "frame" /\ gpuQueue = <<>> /\ Len(built) = 9
       /\ pc \in {"init", "building", "initFlush"} =>
             /\ numUpdates' = 0
             /\ mCurrFrameResource' = Nullptr
             /\ GpuConsuming \subseteq {Nullptr}
    ]_vars

\* C29 witness: the seventh step has built the 50 render items from the
\* geometry and the materials, and the frame resources are not yet sized.
C29_Witness ==
    /\ pc = "building"
    /\ Len(built) = 7
    /\ built[7] = "BuildRenderItems"
    /\ Len(mOpaqueRitems) = 50
    /\ mFrameResources = <<>>

\* C30: the frame resources are released only by the end of the destructor,
\* and when a device exists the destructor has flushed the queue first: at
\* the release no submitted frame is still queued or running on the GPU and
\* the fence value of every frame resource has been reached. When no device
\* was created the destructor does not wait.
C30_FlushBeforeRelease ==
    [][/\ mFrameResources # <<>> /\ mFrameResources' = <<>> =>
             /\ pc \in {"returning", "unwinding"}
             /\ pc' \in {"exited", "caught"}
             /\ md3dDevice
             /\ gpuQueue = <<>>
             /\ GpuConsuming = {}
             /\ \A s \in Slots : ~InFlight(s)
             /\ completed = mCurrentFence
       /\ pc \in {"returning", "unwinding"} /\ gpuQueue # <<>> =>
             md3dDevice /\ pc' = pc /\ mFrameResources' = mFrameResources
       /\ pc \in {"returning", "unwinding"} /\ ~md3dDevice =>
             /\ mFrameResources = <<>>
             /\ ENABLED Destructor
    ]_vars

\* C30 witness: the application has quit with frames submitted in every
\* frame resource and the frame resources have been released.
C30_Witness ==
    /\ pc = "exited"
    /\ md3dDevice
    /\ leaving = "quit"
    /\ mFrameResources = <<>>
    /\ \A s \in Slots : Fence[s] > initFence
    /\ gpuQueue = <<>>

====
